---- MODULE Spec2Model ----
(***************************************************************************)
(* A model of the resume-coach backend: the /upload_resume and /chat       *)
(* handlers of backend/main.py, the retrieval layer of                     *)
(* backend/vector_store.py, the chunker and the resume classifier of       *)
(* backend/pdf_utils.py, the analysis cache of backend/coach_logic.py and  *)
(* the two tables of backend/db.py.                                        *)
(*                                                                         *)
(* Strings whose characters matter (the classifier's reply, the chunker's  *)
(* text) are sequences of one-character strings.  A resume text in the     *)
(* request handlers is a record [tag, len]: its content (tag) and its      *)
(* length in characters; a chunk of it is the slice [tag, lo, hi].         *)
(***************************************************************************)
EXTENDS Integers, Sequences, FiniteSets, TLC

VARIABLES
    index,      \* the vector index: record id -> metadata
    sessions,   \* table sessions: file_id -> user_name
    resumes,    \* table resumes: resume_hash -> [analysis_json, model_name]
    cache,      \* _ANALYSIS_CACHE of each worker process: hash(text) -> result
    nextId,     \* number of file ids (uuid4) handed out so far
    pc,         \* each worker's position in the handler it is running
    req,        \* the locals of the request each worker is handling
    resp,       \* the response the last step sent, with the request it answers
    completed,  \* history: the texts whose upload has returned an analysis
    frame       \* the locals of a function run on its own (SpecChunk, ...)

vars == <<index, sessions, resumes, cache, nextId, pc, req, resp, completed, frame>>

Min(a, b) == IF a <= b THEN a ELSE b

None == "None"

\* The sequences over alphabet S of length at most n.
SeqsUpTo(S, n) == UNION {[1..k -> S] : k \in 0..n}

(***************************************************************************)
(* Python string operations                                                *)
(***************************************************************************)

\* A slice bound as Python reads it: a negative one counts from the end, and
\* the result is clamped to 0 .. n.
SliceBound(i, n) == IF i < 0 THEN (IF n + i < 0 THEN 0 ELSE n + i) ELSE Min(i, n)

\* s[lo:hi]
PySlice(s, lo, hi) == SubSeq(s, SliceBound(lo, Len(s)) + 1, SliceBound(hi, Len(s)))

\* sub in s
Contains(sub, s) ==
    \E i \in 0..(Len(s) - Len(sub)) : SubSeq(s, i + 1, i + Len(sub)) = sub

UpperChar(c) ==
    CASE c = "y" -> "Y"
      [] c = "e" -> "E"
      [] c = "s" -> "S"
      [] c = "n" -> "N"
      [] c = "o" -> "O"
      [] OTHER -> c

\* s.upper()
Upper(s) == [i \in 1..Len(s) |-> UpperChar(s[i])]

RECURSIVE LStrip(_)
LStrip(s) == IF s # <<>> /\ Head(s) = " " THEN LStrip(Tail(s)) ELSE s

RECURSIVE RStrip(_)
RStrip(s) ==
    IF s # <<>> /\ s[Len(s)] = " " THEN RStrip(SubSeq(s, 1, Len(s) - 1)) ELSE s

\* s.strip()
Strip(s) == RStrip(LStrip(s))

(***************************************************************************)
(* chunk_text (backend/pdf_utils.py)                                       *)
(***************************************************************************)

DEFAULT_CHUNK_SIZE == 500
DEFAULT_OVERLAP == 50

\* end = start + chunk_size
ChunkEnd(start, chunk_size) == start + chunk_size

\* A chunker that forgets the overlap: start = end.
ChunkAdvanceNoOverlap(end, overlap) == end

\* A chunker whose windows overlap by one character less.
ChunkAdvanceOffByOne(end, overlap) == end - overlap + 1

\* A chunker that steps one character short.
ChunkAdvanceBackOne(end, overlap) == end - overlap - 1

\* start = end - overlap
ChunkAdvance(end, overlap) == end - overlap

\* The values `start` takes in the loop `while start < len(text)`, in order.
RECURSIVE ChunkStarts(_, _, _, _, _)
ChunkStarts(n, chunk_size, overlap, start, acc) ==
    IF start < n
    THEN ChunkStarts(n, chunk_size, overlap,
                     ChunkAdvance(ChunkEnd(start, chunk_size), overlap),
                     Append(acc, start))
    ELSE acc

\* chunk_text(text, chunk_size, overlap) on a string.
chunk_text(text, chunk_size, overlap) ==
    LET starts == ChunkStarts(Len(text), chunk_size, overlap, 0, <<>>)
    IN  [i \in 1..Len(starts) |->
            PySlice(text, starts[i], ChunkEnd(starts[i], chunk_size))]

(***************************************************************************)
(* is_probable_resume (backend/pdf_utils.py)                               *)
(***************************************************************************)

MIN_RESUME_CHARS == 300
MAX_RESUME_CHARS == 60000

YES == <<"Y", "E", "S">>
NO == <<"N", "O">>

\* A verdict that accepts every reply containing YES.
VerdictIgnoringNo(raw) == Contains(YES, raw)

\* The last lines of is_probable_resume: raw is response.text.strip().upper().
Verdict(raw) ==
    IF Contains(YES, raw) /\ ~Contains(NO, raw) THEN TRUE
    ELSE IF Contains(NO, raw) /\ ~Contains(YES, raw) THEN FALSE
    ELSE FALSE

\* is_probable_resume on a text of n characters.  reply is what
\* generate_content does when it is called: [kind |-> "text", text |-> s],
\* [kind |-> "none"] (response.text is None) or [kind |-> "raise"].
\* The result is [raised, ret, calls]: whether an exception left the
\* function, the value returned otherwise, and the number of model calls.
is_probable_resume(n, reply) ==
    IF n = 0 THEN [raised |-> FALSE, ret |-> FALSE, calls |-> 0]
    ELSE IF n < MIN_RESUME_CHARS THEN [raised |-> FALSE, ret |-> FALSE, calls |-> 0]
    ELSE IF n > MAX_RESUME_CHARS THEN [raised |-> FALSE, ret |-> FALSE, calls |-> 0]
    ELSE IF reply.kind # "text" THEN [raised |-> TRUE, ret |-> FALSE, calls |-> 1]
    ELSE [raised |-> FALSE, ret |-> Verdict(Upper(Strip(reply.text))), calls |-> 1]

(***************************************************************************)
(* The vector index and retrieve_texts (backend/vector_store.py)           *)
(***************************************************************************)

Absent == "<absent>"        \* a metadata field a record does not have
NoCond == [op |-> "none", val |-> ""]  \* a filter key that is not set

RESUME_CHUNK == "resume_chunk"
COACH_QA == "coach_qa"

\* `if x:` on an optional string
Truthy(x) == x # None /\ x # ""

\* filter_dict as retrieve_texts builds it, without the file_id key.
BuildFilterNoFileId(doc_types, file_id) ==
    [doc_type |->
        IF doc_types # <<>>
        THEN IF Len(doc_types) = 1
             THEN [op |-> "eq", val |-> doc_types[1]]
             ELSE [op |-> "in", val |-> {doc_types[i] : i \in 1..Len(doc_types)}]
        ELSE NoCond,
     file_id |-> NoCond]

\* filter_dict as retrieve_texts builds it; both keys NoCond is `None`.
BuildFilter(doc_types, file_id) ==
    [doc_type |->
        IF doc_types # <<>>
        THEN IF Len(doc_types) = 1
             THEN [op |-> "eq", val |-> doc_types[1]]
             ELSE [op |-> "in", val |-> {doc_types[i] : i \in 1..Len(doc_types)}]
        ELSE NoCond,
     file_id |->
        IF Truthy(file_id) THEN [op |-> "eq", val |-> file_id] ELSE NoCond]

\* fallback_filter = {"doc_type": doc_types[0]}
FallbackFilter(doc_types) ==
    [doc_type |-> [op |-> "eq", val |-> doc_types[1]], file_id |-> NoCond]

\* A fallback that does not look at allow_fallback.
NeedsFallbackAlways(allow_fallback, matches, file_id, doc_types) ==
    matches = <<>> /\ Truthy(file_id) /\ doc_types # <<>>

\* The condition under which retrieve_texts issues the second query.
NeedsFallback(allow_fallback, matches, file_id, doc_types) ==
    allow_fallback /\ matches = <<>> /\ Truthy(file_id) /\ doc_types # <<>>

\* One key of a metadata filter: a record without the field never matches.
CondHolds(value, cond) ==
    \/ cond.op = "none"
    \/ /\ cond.op # "none"
       /\ value # Absent
       /\ IF cond.op = "eq" THEN value = cond.val ELSE value \in cond.val

MatchesFilter(meta, flt) ==
    /\ CondHolds(meta.doc_type, flt.doc_type)
    /\ CondHolds(meta.file_id, flt.file_id)

\* The similarity of a stored text to a query: query 1 is closest to the
\* start of a text, query 2 to its end.  Equal texts have equal scores.
\* Query 0 is the seeder's zero vector, as close to one record as to another.
Score(meta, query) ==
    IF query = 0 THEN 0
    ELSE IF query = 1 THEN 0 - meta.text.lo ELSE meta.text.lo

\* sorted(matches, key=score, reverse=True): every order of the ids in S that
\* is descending by score (the order of equal scores is the service's).
RECURSIVE SortedDesc(_, _, _)
SortedDesc(S, idx, query) ==
    IF S = {} THEN {<<>>}
    ELSE LET best == {m \in S : \A o \in S :
                         Score(idx[m], query) >= Score(idx[o], query)}
         IN  UNION {{<<m>> \o t : t \in SortedDesc(S \ {m}, idx, query)} : m \in best}

\* index.query(vector, top_k, filter): the possible results, each the ids of
\* the top_k matching records, by score.
IndexQuery(idx, query, top_k, flt) ==
    LET matching == {id \in DOMAIN idx : MatchesFilter(idx[id], flt)}
    IN  {SubSeq(h, 1, Min(top_k, Len(h))) : h \in SortedDesc(matching, idx, query)}

\* index.upsert(vectors=items): items is a function id -> metadata.
IndexUpsert(idx, items) ==
    [id \in DOMAIN idx \cup DOMAIN items |->
        IF id \in DOMAIN items THEN items[id] ELSE idx[id]]

RetrieveOutcome(raised, queries, hits, idx) ==
    [raised |-> raised, embed_calls |-> 1, queries |-> queries, hits |-> hits,
     texts |-> [i \in 1..Len(hits) |-> idx[hits[i]].text]]

\* retrieve_texts: every outcome the call can have on index idx.  An outcome
\* records whether an exception left the function, the filters of the queries
\* issued, the ids of the records whose texts are returned, and the texts.
retrieve_texts(idx, query, top_k, doc_types, file_id, allow_fallback) ==
    LET flt == BuildFilter(doc_types, file_id)
        fb == FallbackFilter(doc_types)
    IN  \* embed_texts raises, or returns no vector
        {RetrieveOutcome(TRUE, <<>>, <<>>, idx), RetrieveOutcome(FALSE, <<>>, <<>>, idx)}
        \cup \* the first query raises
        {RetrieveOutcome(TRUE, <<flt>>, <<>>, idx)}
        \cup
        UNION {
            IF NeedsFallback(allow_fallback, m, file_id, doc_types)
            THEN {RetrieveOutcome(TRUE, <<flt, fb>>, <<>>, idx)}
                 \cup {RetrieveOutcome(FALSE, <<flt, fb>>, h, idx) :
                          h \in UNION {SortedDesc({m2[i] : i \in 1..Len(m2)}, idx, query) :
                                          m2 \in IndexQuery(idx, query, top_k, fb)}}
            ELSE {RetrieveOutcome(FALSE, <<flt>>, h, idx) :
                     h \in SortedDesc({m[i] : i \in 1..Len(m)}, idx, query)}
            : m \in IndexQuery(idx, query, top_k, flt)}

(***************************************************************************)
(* The tables of backend/db.py                                             *)
(***************************************************************************)

\* json.dumps / json.loads of an analysis result
JsonDumps(obj) == "json(" \o obj \o ")"

AnalysisResults == {"analysis-1", "analysis-2"}

JsonLoads(text) == CHOOSE obj \in AnalysisResults : JsonDumps(obj) = text

\* INSERT ... ON CONFLICT (key) DO UPDATE
TableUpsert(tbl, key, row) ==
    [k \in DOMAIN tbl \cup {key} |-> IF k = key THEN row ELSE tbl[k]]

save_user_name(tbl, file_id, user_name) == TableUpsert(tbl, file_id, user_name)

get_user_name(tbl, file_id) ==
    IF file_id \in DOMAIN tbl THEN tbl[file_id] ELSE None

\* A lookup that never finds the row.
GetResumeAnalysisMiss(tbl, resume_hash) == None

\* The analysis of get_resume_analysis's result pair, None when no row.
get_resume_analysis(tbl, resume_hash) ==
    IF resume_hash \in DOMAIN tbl
    THEN JsonLoads(tbl[resume_hash].analysis_json)
    ELSE None

save_resume_analysis(tbl, resume_hash, analysis_obj, model_name) ==
    TableUpsert(tbl, resume_hash,
                [analysis_json |-> JsonDumps(analysis_obj), model_name |-> model_name])

(***************************************************************************)
(* Texts, hashes and analyze_resume (backend/coach_logic.py)               *)
(***************************************************************************)

Text(tag, len) == [tag |-> tag, len |-> len]

EmptyText == Text(0, 0)

\* hashlib.sha256(text.encode("utf-8")).hexdigest(): a function of the
\* content, taken to be collision-free.
Sha256(text) == "sha256(" \o ToString(text.tag) \o "," \o ToString(text.len) \o ")"

\* hash(text), the key of _ANALYSIS_CACHE
PyHash(text) == "hash(" \o ToString(text.tag) \o "," \o ToString(text.len) \o ")"

\* extract_name_from_resume: the first non-empty line
extract_name_from_resume(text) ==
    IF text.len = 0 THEN "there" ELSE "name-of-" \o ToString(text.tag)

\* chunk_text(text) with its defaults, on a text given by tag and length.
chunk_slices(text) ==
    LET starts == ChunkStarts(text.len, DEFAULT_CHUNK_SIZE, DEFAULT_OVERLAP, 0, <<>>)
    IN  [i \in 1..Len(starts) |->
            [tag |-> text.tag, lo |-> starts[i],
             hi |-> Min(ChunkEnd(starts[i], DEFAULT_CHUNK_SIZE), text.len)]]

\* analyze_resume(text) in a process whose _ANALYSIS_CACHE is c; gen is what
\* the model call does if it is made: "raise" or the result parsed from it.
analyze_resume(c, text, gen) ==
    LET cache_key == PyHash(text)
    IN  IF cache_key \in DOMAIN c
        THEN [raised |-> FALSE, result |-> c[cache_key], cache |-> c, calls |-> 0]
        ELSE IF gen = "raise"
        THEN [raised |-> TRUE, result |-> None, cache |-> c, calls |-> 1]
        ELSE [raised |-> FALSE, result |-> gen,
              cache |-> TableUpsert(c, cache_key, gen), calls |-> 1]

(***************************************************************************)
(* The parsing of the model's output in analyze_resume                     *)
(* (backend/coach_logic.py)                                                *)
(***************************************************************************)

\* JSON values inside an object are written as their JSON text.
JNull == "null"
JEmptyList == "[]"
JEmptyStr == "\"\""

\* The values a field of the model's JSON object may hold.
FieldValues == {JNull, "0", JEmptyList, "[\"x\"]", "\"text\""}

\* bool(v) is False for None, 0, "" and []
Falsy(v) == v \in {JNull, "0", JEmptyList, JEmptyStr, "false"}

\* The keys of the result, each with its camelCase spelling and its default;
\* list says whether the field is built with `or []`.
ResultFields ==
    {[snake |-> "overall_score", camel |-> "overallScore", default |-> JNull, list |-> FALSE],
     [snake |-> "score_label", camel |-> "scoreLabel", default |-> JEmptyStr, list |-> FALSE],
     [snake |-> "top_skills", camel |-> "topSkills", default |-> JEmptyList, list |-> TRUE],
     [snake |-> "role_fit", camel |-> "roleFit", default |-> JEmptyList, list |-> TRUE],
     [snake |-> "experience_level", camel |-> "experienceLevel", default |-> JEmptyStr, list |-> FALSE],
     [snake |-> "years_experience", camel |-> "yearsExperience", default |-> JNull, list |-> FALSE],
     [snake |-> "project_count", camel |-> "projectCount", default |-> JNull, list |-> FALSE],
     [snake |-> "companies_count", camel |-> "companiesCount", default |-> JNull, list |-> FALSE],
     [snake |-> "gaps", camel |-> "gaps", default |-> JEmptyList, list |-> TRUE],
     [snake |-> "quick_wins", camel |-> "quickWins", default |-> JEmptyList, list |-> TRUE]}

ResultKeys == {fd.snake : fd \in ResultFields}

EmptyDict == [k \in {} |-> JNull]

\* A text of the model, by its structure.  wrap: "none" (resp.text is None),
\* "bare" (the body alone) or "prose" (words around the body).  The body is
\* blank, words without braces ("text"), words with an opening brace only
\* ("open"), a JSON scalar, a JSON list whose items are numbers ("1") and
\* empty objects ("{}"), or a JSON object with fields f.
Body(t, f, items) == [t |-> t, f |-> f, items |-> items]

\* raw = (resp.text or "").strip()
RawIsEmpty(out) == out.wrap = "none" \/ (out.wrap = "bare" /\ out.body.t = "blank")

\* The positions of the items of a list that are objects.
ObjectItems(items) == {i \in 1..Len(items) : items[i] = "{}"}

\* raw.index("{") and raw.rindex("}") both succeed
HasBraces(body) ==
    \/ body.t = "dict"
    \/ body.t = "list" /\ ObjectItems(body.items) # {}

\* raw_json: raw[start:end] when both braces are found, else raw.  The result
\* is [wrap, body] again; a slice that is not JSON has body "text".
Isolate(out) ==
    IF HasBraces(out.body)
    THEN IF out.body.t = "dict"
         THEN [wrap |-> "bare", body |-> out.body]
         ELSE IF Cardinality(ObjectItems(out.body.items)) = 1
         THEN [wrap |-> "bare", body |-> Body("dict", EmptyDict, <<>>)]
         ELSE [wrap |-> "bare", body |-> Body("text", EmptyDict, <<>>)]
    ELSE out

\* json.loads(raw_json): [ok, data]; data is the body parsed.
JsonLoadsText(raw_json) ==
    IF raw_json.wrap = "bare" /\ raw_json.body.t \in {"scalar", "list", "dict"}
    THEN [ok |-> TRUE, data |-> raw_json.body]
    ELSE [ok |-> FALSE, data |-> Body("dict", EmptyDict, <<>>)]

\* data after `try: data = json.loads(raw_json) except Exception: data = {}`
ParsedData(out) == JsonLoadsText(Isolate(out)).data

\* get2(obj, snake, camel, default): obj.get(snake) if snake in obj else
\* obj.get(camel, default).  On a list or a string `in` answers and .get
\* raises AttributeError; on a number, a boolean or None `in` raises TypeError.
get2(obj, snake, camel, default) ==
    IF obj.t # "dict" THEN [raised |-> TRUE, val |-> JNull]
    ELSE IF snake \in DOMAIN obj.f THEN [raised |-> FALSE, val |-> obj.f[snake]]
    ELSE IF camel \in DOMAIN obj.f THEN [raised |-> FALSE, val |-> obj.f[camel]]
    ELSE [raised |-> FALSE, val |-> default]

\* One value of the result: `get2(...) or []` for the list fields.
ResultValue(fd, val) == IF fd.list /\ Falsy(val) THEN JEmptyList ELSE val

\* The minimal safe structure returned when raw is empty.
DefaultResult ==
    [k \in ResultKeys |-> (CHOOSE fd \in ResultFields : fd.snake = k).default]

\* analyze_resume from `raw = (resp.text or "").strip()` on: [raised, result].
parse_analysis(out) ==
    IF RawIsEmpty(out) THEN [raised |-> FALSE, result |-> DefaultResult]
    ELSE LET data == ParsedData(out)
         IN  IF \E fd \in ResultFields : get2(data, fd.snake, fd.camel, fd.default).raised
             THEN [raised |-> TRUE, result |-> EmptyDict]
             ELSE [raised |-> FALSE,
                   result |-> [k \in ResultKeys |->
                      LET fd == CHOOSE x \in ResultFields : x.snake = k
                      IN  ResultValue(fd, get2(data, fd.snake, fd.camel, fd.default).val)]]

(***************************************************************************)
(* The request handlers (backend/main.py)                                  *)
(***************************************************************************)

Workers == {"w1", "w2"}

MaxUploads == 2

RESUME_TOP_K == 5
COACH_TOP_K == 3

Missing == "<missing>"      \* a request body without the field

FileId(n) == "uuid" \o ToString(n)

\* Record ids that leave the file_id out.
RecordIdNoFileId(prefix, i) == "chunk-" \o ToString(i)

\* f"{file_id}-{i}" and f"coachqa-{i}"
RecordId(prefix, i) == prefix \o "-" \o ToString(i)

\* The files a client uploads: whether the name ends in .pdf, whether PyMuPDF
\* can open the bytes, and the text of the pages (stripped).
Docs ==
    {[is_pdf |-> FALSE, readable |-> FALSE, text |-> Text(1, 480)],
     [is_pdf |-> TRUE, readable |-> FALSE, text |-> Text(1, 480)],
     [is_pdf |-> TRUE, readable |-> TRUE, text |-> EmptyText],
     [is_pdf |-> TRUE, readable |-> TRUE, text |-> Text(1, 480)],
     [is_pdf |-> TRUE, readable |-> TRUE, text |-> Text(3, 299)]}

\* What the classifier's model call does in the handlers.
ClassifierReplies ==
    {[kind |-> "text", text |-> YES],
     [kind |-> "text", text |-> NO],
     [kind |-> "raise", text |-> <<>>]}

Queries == {1, 2}

NOT_RESUME_ANALYSIS ==
    "I could not detect this file as a proper resume. Please upload a clear resume PDF for best results."
NOT_RESUME_GREETING ==
    "Hi there! I've loaded your file. This isn't a resume, please upload that next."
PLEASE_UPLOAD ==
    "Please upload a valid resume in PDF format before we start chatting."
NO_RESUME_CONTENT ==
    "I couldn't find any valid resume content linked to this chat. Please upload your actual resume in PDF format and then try asking your question again."

NoReq == [kind |-> "none"]
NoResp == [status |-> 0, body |-> [status |-> 0], of |-> NoReq]

\* An exception that leaves a handler: the framework answers 500.
Fault == [status |-> 500, body |-> "Internal Server Error"]

\* The body fails validation against ChatRequest: the framework answers 422.
Unprocessable == [status |-> 422, body |-> "field required"]

NoCalls == [classify |-> 0, embed |-> 0, analysis |-> 0, reply |-> 0]

\* text = extract_text_from_pdf(file_bytes) if is_pdf, "" when it raises
ExtractText(doc) ==
    IF doc.is_pdf /\ doc.readable THEN doc.text ELSE EmptyText

\* is_valid_resume, with the classifier's exceptions caught
ClassifyUpload(is_pdf, text, reply) ==
    IF is_pdf /\ text.len > 0
    THEN LET r == is_probable_resume(text.len, reply)
         IN  [ret |-> ~r.raised /\ r.ret, raised |-> r.raised, calls |-> r.calls]
    ELSE [ret |-> FALSE, raised |-> FALSE, calls |-> 0]

\* A not-a-resume branch that leaves analysis at its default.
NotResumeResponseNoAnalysis(file_id) ==
    [status |-> 200, file_id |-> file_id, greeting |-> NOT_RESUME_GREETING,
     analysis |-> None]

\* The response of the branch `else` of `if is_valid_resume`.
NotResumeResponse(file_id) ==
    [status |-> 200, file_id |-> file_id, greeting |-> NOT_RESUME_GREETING,
     analysis |-> NOT_RESUME_ANALYSIS]

ResumeResponse(file_id, user_name, analysis) ==
    [status |-> 200, file_id |-> file_id,
     greeting |-> "Hi " \o user_name \o "! I've analyzed your resume.",
     analysis |-> analysis]

ChatResponse(text) == [status |-> 200, response |-> text]

\* The items upload_resume builds from the chunks: id -> metadata.
UploadItems(file_id, chunks) ==
    [id \in {RecordId(file_id, i) : i \in 0..(Len(chunks) - 1)} |->
        LET i == CHOOSE j \in 0..(Len(chunks) - 1) : RecordId(file_id, j) = id
        IN  [file_id |-> file_id, text |-> chunks[i + 1], doc_type |-> RESUME_CHUNK]]

\* The handler of worker w goes on at label with locals r.
Goto(w, label, r) ==
    /\ pc' = [pc EXCEPT ![w] = label]
    /\ req' = [req EXCEPT ![w] = r]
    /\ resp' = NoResp

\* The handler of worker w ends: response r answers the request with locals rq.
Reply(w, rq, r) ==
    /\ pc' = [pc EXCEPT ![w] = "idle"]
    /\ req' = [req EXCEPT ![w] = NoReq]
    /\ resp' = [status |-> r.status, body |-> r, of |-> rq]

\* upload_resume up to `if is_valid_resume:`, and its `else` branch.
UploadBegin(w) ==
    /\ resp = NoResp
    /\ pc[w] = "idle"
    /\ nextId < MaxUploads
    /\ \E doc \in Docs :
       \E reply \in IF ClassifyUpload(doc.is_pdf, ExtractText(doc),
                                     [kind |-> "raise", text |-> <<>>]).calls = 0
                     THEN {[kind |-> "raise", text |-> <<>>]}
                     ELSE ClassifierReplies :
        LET file_id == FileId(nextId + 1)
            text == ExtractText(doc)
            cls == ClassifyUpload(doc.is_pdf, text, reply)
            r == [kind |-> "upload", is_pdf |-> doc.is_pdf, file_id |-> file_id,
                  text |-> text,
                  classified |-> IF cls.calls = 0 THEN "skipped"
                                 ELSE IF cls.raised THEN "error"
                                 ELSE IF cls.ret THEN "yes" ELSE "no",
                  is_valid_resume |-> cls.ret,
                  resume_hash |-> IF text.len > 0 THEN Sha256(text) ELSE None,
                  chunks |-> IF cls.ret THEN chunk_slices(text) ELSE <<>>,
                  user_name |-> None, cached_analysis |-> None, analysis |-> None,
                  calls |-> [NoCalls EXCEPT !.classify = cls.calls],
                  prior |-> text \in completed]
        IN  /\ nextId' = nextId + 1
            /\ IF cls.ret
               THEN Goto(w, "upsert", r)
               ELSE Reply(w, r, NotResumeResponse(file_id))
    /\ UNCHANGED <<index, sessions, resumes, cache, completed, frame>>

\* 1) chunk + embed + upsert
UploadUpsert(w) ==
    /\ resp = NoResp
    /\ pc[w] = "upsert"
    /\ LET r == req[w]
           counted == [r EXCEPT !.calls.embed = @ + 1]
       IN  IF r.chunks = <<>>
           THEN Goto(w, "session", r) /\ UNCHANGED index
           ELSE \/ \* embed_texts or index.upsert raises
                   Reply(w, counted, Fault) /\ UNCHANGED index
                \/ \* embed_texts returns no vector
                   Goto(w, "session", counted) /\ UNCHANGED index
                \/ /\ index' = IndexUpsert(index, UploadItems(r.file_id, r.chunks))
                   /\ Goto(w, "session", counted)
    /\ UNCHANGED <<sessions, resumes, cache, nextId, completed, frame>>

\* 2) extract the user name and store it
UploadSession(w) ==
    /\ resp = NoResp
    /\ pc[w] = "session"
    /\ LET name == extract_name_from_resume(req[w].text)
           r == [req[w] EXCEPT !.user_name = IF Truthy(name) THEN name ELSE "there"]
       IN  \/ Reply(w, r, Fault) /\ UNCHANGED sessions
           \/ /\ sessions' = save_user_name(sessions, r.file_id, r.user_name)
              /\ Goto(w, "cacheget", r)
    /\ UNCHANGED <<index, resumes, cache, nextId, completed, frame>>

\* 3) look the resume up in the table resumes
UploadCacheGet(w) ==
    /\ resp = NoResp
    /\ pc[w] = "cacheget"
    /\ \/ Reply(w, req[w], Fault)
       \/ Goto(w, "analyze", [req[w] EXCEPT !.cached_analysis =
                 IF Truthy(req[w].resume_hash)
                 THEN get_resume_analysis(resumes, req[w].resume_hash)
                 ELSE None])
    /\ UNCHANGED <<index, sessions, resumes, cache, nextId, completed, frame>>

GenAnalysisOutcomes == AnalysisResults \cup {"raise"}

\* `if cached_analysis is not None: ... else: analysis = analyze_resume(text)`
UploadAnalyze(w) ==
    /\ resp = NoResp
    /\ pc[w] = "analyze"
    /\ LET r == req[w]
       IN  IF r.cached_analysis # None
           THEN /\ Reply(w, [r EXCEPT !.analysis = r.cached_analysis],
                         ResumeResponse(r.file_id, r.user_name, r.cached_analysis))
                /\ completed' = completed \cup {r.text}
                /\ UNCHANGED cache
           ELSE \E gen \in GenAnalysisOutcomes :
                LET a == analyze_resume(cache[w], r.text, gen)
                    r2 == [r EXCEPT !.analysis = a.result, !.calls.analysis = @ + a.calls]
                IN  /\ cache' = [cache EXCEPT ![w] = a.cache]
                    /\ UNCHANGED completed
                    /\ IF a.raised
                       THEN Reply(w, r2, Fault)
                       ELSE Goto(w, "save", r2)
    /\ UNCHANGED <<index, sessions, resumes, nextId, frame>>

\* save_resume_analysis and the return
UploadSave(w) ==
    /\ resp = NoResp
    /\ pc[w] = "save"
    /\ LET r == req[w]
       IN  IF Truthy(r.resume_hash)
           THEN \/ Reply(w, r, Fault) /\ UNCHANGED <<resumes, completed>>
                \/ /\ resumes' = save_resume_analysis(resumes, r.resume_hash,
                                                      r.analysis, "resume-coach-llm")
                   /\ Reply(w, r, ResumeResponse(r.file_id, r.user_name, r.analysis))
                   /\ completed' = completed \cup {r.text}
           ELSE /\ Reply(w, r, ResumeResponse(r.file_id, r.user_name, r.analysis))
                /\ completed' = completed \cup {r.text}
                /\ UNCHANGED resumes
    /\ UNCHANGED <<index, sessions, cache, nextId, frame>>

\* The ids a client may send as file_id: none, the empty string, those the
\* service hands out, and one it never issued.
ChatFileIds == {Missing, "", "bogus"} \cup {FileId(n) : n \in 1..MaxUploads}

HasResumeChunks(idx, file_id) ==
    \E id \in DOMAIN idx :
        idx[id].doc_type = RESUME_CHUNK /\ idx[id].file_id = file_id

\* What generate_content does in generate_reply: a text, None, or it raises.
GenReplyOutcomes == {"reply", None, "raise"}

\* Steps 4 to 6 of chat, for a request with locals r that found resume
\* chunks: the coach Q&A context, get_user_name, generate_reply, the return.
ChatAnswer(w, r) ==
    \E out \in retrieve_texts(index, r.query, COACH_TOP_K, <<COACH_QA>>, None, FALSE) :
        LET r2 == [r EXCEPT !.calls.embed = @ + out.embed_calls,
                            !.coach_chunks = out.texts]
        IN  IF out.raised THEN Reply(w, r2, Fault)
            ELSE \/ Reply(w, r2, Fault)     \* get_user_name raises
                 \/ \E gen \in GenReplyOutcomes :
                      LET r3 == [r2 EXCEPT !.calls.reply = @ + 1]
                      IN  IF gen = "raise" \/ gen = None
                          THEN Reply(w, r3, Fault)  \* None fails ChatResponse's validation
                          ELSE Reply(w, r3, ChatResponse(gen))

\* The handler chat, request validation included.  It only reads the index
\* and the table sessions, the resume chunks before the coach records, so
\* the whole of it is one step.
Chat(w) ==
    /\ resp = NoResp
    /\ pc[w] = "idle"
    /\ \E fid \in ChatFileIds, q \in Queries :
        LET r == [kind |-> "chat", file_id |-> fid, query |-> q,
                  issued |-> fid \in {FileId(n) : n \in 1..nextId},
                  had_chunks |-> HasResumeChunks(index, fid),
                  resume_hits |-> <<>>, resume_chunks |-> <<>>,
                  coach_chunks |-> <<>>, calls |-> NoCalls]
        IN  IF fid = Missing
            THEN Reply(w, r, Unprocessable)
            ELSE IF ~Truthy(fid)
            THEN Reply(w, r, ChatResponse(PLEASE_UPLOAD))
            ELSE \E out \in retrieve_texts(index, q, RESUME_TOP_K,
                                           <<RESUME_CHUNK>>, fid, FALSE) :
                LET r2 == [r EXCEPT !.calls.embed = @ + out.embed_calls,
                                    !.resume_hits = out.hits,
                                    !.resume_chunks = out.texts]
                IN  IF out.raised THEN Reply(w, r2, Fault)
                    ELSE IF out.texts = <<>>
                    THEN Reply(w, r2, ChatResponse(NO_RESUME_CONTENT))
                    ELSE ChatAnswer(w, r2)
    /\ UNCHANGED <<index, sessions, resumes, cache, nextId, completed, frame>>

(***************************************************************************)
(* seed_coach_qa_if_needed, run by startup_event in every worker           *)
(***************************************************************************)

CorpusEntries == 2

CoachItems ==
    [id \in {RecordId("coachqa", i) : i \in 0..(CorpusEntries - 1)} |->
        LET i == CHOOSE j \in 0..(CorpusEntries - 1) : RecordId("coachqa", j) = id
        IN  [file_id |-> Absent, text |-> [tag |-> 0, lo |-> i, hi |-> i],
             doc_type |-> COACH_QA]]

\* The query for an existing coach_qa record, and the read of coach_qa.txt.
\* An exception in startup_event ends the worker process: it takes no further
\* step, as in the behaviours that leave the worker at "boot" or "seed".
SeedCheck(w) ==
    /\ resp = NoResp
    /\ pc[w] = "boot"
    /\    \E m \in IndexQuery(index, 0, 1, BuildFilter(<<COACH_QA>>, None)) :
            IF m # <<>> THEN Goto(w, "idle", NoReq)
            ELSE \/ Goto(w, "idle", NoReq)   \* coach_qa.txt not found
                 \/ Goto(w, "seed", NoReq)
    /\ UNCHANGED <<index, sessions, resumes, cache, nextId, completed, frame>>

\* A seeder whose record ids differ from one run to the next.
SeedUpsertFreshIds(w) ==
    /\ resp = NoResp
    /\ pc[w] = "seed"
    /\ index' = IndexUpsert(index,
          [id \in {RecordId(w, i) : i \in 0..(CorpusEntries - 1)} |->
              [file_id |-> Absent, text |-> [tag |-> 0, lo |-> 0, hi |-> 0],
               doc_type |-> COACH_QA]])
    /\ Goto(w, "idle", NoReq)
    /\ UNCHANGED <<sessions, resumes, cache, nextId, completed, frame>>

\* embed the entries and upsert them as coachqa-<i>
SeedUpsert(w) ==
    /\ resp = NoResp
    /\ pc[w] = "seed"
    /\ index' = IndexUpsert(index, CoachItems)
    /\ Goto(w, "idle", NoReq)
    /\ UNCHANGED <<sessions, resumes, cache, nextId, completed, frame>>

(***************************************************************************)
(* The service                                                             *)
(***************************************************************************)

EmptyTable == [k \in {} |-> None]

NoFrame == [fn |-> "none"]

Init ==
    /\ index = EmptyTable
    /\ sessions = EmptyTable
    /\ resumes = EmptyTable
    /\ cache = [w \in Workers |-> EmptyTable]
    /\ nextId = 0
    /\ pc = [w \in Workers |-> "boot"]
    /\ req = [w \in Workers |-> NoReq]
    /\ resp = NoResp
    /\ completed = {}
    /\ frame = NoFrame

\* The response of the step just taken leaves the service.
Deliver ==
    /\ resp # NoResp
    /\ resp' = NoResp
    /\ UNCHANGED <<index, sessions, resumes, cache, nextId, pc, req, completed, frame>>

\* A response is delivered before the next step of a handler is taken (the
\* guard resp = NoResp of every step), so that resp shows each response in
\* exactly one state.
Next ==
    \/ Deliver
    \/ \E w \in Workers :
        \/ SeedCheck(w)
        \/ SeedUpsert(w)
        \/ UploadBegin(w)
        \/ UploadUpsert(w)
        \/ UploadSession(w)
        \/ UploadCacheGet(w)
        \/ UploadAnalyze(w)
        \/ UploadSave(w)
        \/ Chat(w)

Spec == Init /\ [][Next]_vars

(***************************************************************************)
(* chunk_text, is_probable_resume and retrieve_texts run on their own      *)
(***************************************************************************)

\* The service at rest: the state of the variables a single function run
\* does not touch.
ServiceAtRest ==
    /\ sessions = EmptyTable
    /\ resumes = EmptyTable
    /\ cache = [w \in Workers |-> EmptyTable]
    /\ nextId = 0
    /\ pc = [w \in Workers |-> "boot"]
    /\ req = [w \in Workers |-> NoReq]
    /\ resp = NoResp
    /\ completed = {}

MaxTextLen == 5
MaxChunkSize == 3
TextChars == {"a", "b"}

\* chunk_text is called with a text, a chunk size and an overlap below it.
ChunkInit ==
    /\ ServiceAtRest
    /\ index = EmptyTable
    /\ \E text \in SeqsUpTo(TextChars, MaxTextLen), chunk_size \in 1..MaxChunkSize :
       \E overlap \in 0..(chunk_size - 1) :
          frame = [fn |-> "chunk_text", text |-> text, chunk_size |-> chunk_size,
                   overlap |-> overlap, chunks |-> <<>>, start |-> 0, pc |-> "loop"]

\* One turn of `while start < len(text)`.  A call that has made more turns
\* than the longest text has characters is followed no further.
ChunkLoop ==
    /\ frame.fn = "chunk_text"
    /\ frame.pc = "loop"
    /\ frame.start < Len(frame.text)
    /\ Len(frame.chunks) <= MaxTextLen
    /\ LET end == ChunkEnd(frame.start, frame.chunk_size)
           chunk == PySlice(frame.text, frame.start, end)
       IN  frame' = [frame EXCEPT !.chunks = Append(@, chunk),
                                  !.start = ChunkAdvance(end, frame.overlap)]
    /\ UNCHANGED <<index, sessions, resumes, cache, nextId, pc, req, resp, completed>>

\* The loop ends: `return chunks`.
ChunkReturn ==
    /\ frame.fn = "chunk_text"
    /\ frame.pc = "loop"
    /\ ~(frame.start < Len(frame.text))
    /\ frame' = [frame EXCEPT !.pc = "done"]
    /\ UNCHANGED <<index, sessions, resumes, cache, nextId, pc, req, resp, completed>>

ChunkNext == ChunkLoop \/ ChunkReturn

SpecChunk == ChunkInit /\ [][ChunkNext]_vars

\* chunk_text is called with a text, a chunk size and any overlap, also one
\* that is not below the chunk size: the function checks neither.
ChunkAnyInit ==
    /\ ServiceAtRest
    /\ index = EmptyTable
    /\ \E text \in SeqsUpTo(TextChars, MaxTextLen), chunk_size \in 1..MaxChunkSize :
       \E overlap \in 0..(MaxChunkSize + 1) :
          frame = [fn |-> "chunk_text", text |-> text, chunk_size |-> chunk_size,
                   overlap |-> overlap, chunks |-> <<>>, start |-> 0, pc |-> "loop"]

\* The interpreter keeps running the call: a step that can be taken is taken.
SpecChunkLive == ChunkAnyInit /\ [][ChunkNext]_vars /\ WF_vars(ChunkNext)

MaxReplyLen == 5
ReplyChars == {"Y", "e", "S", "N", "O", " "}

\* The lengths of the texts given to the classifier.
TextLengths == {0, 299, 300, 60000, 60001}

ModelReplies ==
    {[kind |-> "text", text |-> t] : t \in SeqsUpTo(ReplyChars, MaxReplyLen)}
    \cup {[kind |-> "none", text |-> <<>>], [kind |-> "raise", text |-> <<>>]}

\* is_probable_resume is called on a text of n characters; reply is what the
\* model call does if the function makes it.
ClassifierInit ==
    /\ ServiceAtRest
    /\ index = EmptyTable
    /\ \E n \in TextLengths, reply \in ModelReplies :
          frame = [fn |-> "is_probable_resume", n |-> n, reply |-> reply,
                   pc |-> "call", result |-> [raised |-> FALSE, ret |-> FALSE, calls |-> 0]]

Classify ==
    /\ frame.fn = "is_probable_resume"
    /\ frame.pc = "call"
    /\ frame' = [frame EXCEPT !.pc = "done",
                              !.result = is_probable_resume(frame.n, frame.reply)]
    /\ UNCHANGED <<index, sessions, resumes, cache, nextId, pc, req, resp, completed>>

ClassifierNext == Classify

SpecClassifier == ClassifierInit /\ [][ClassifierNext]_vars

\* The records an index may hold when retrieve_texts runs.
RecordPool ==
    [id \in {"A-0", "B-0", "B-1", "coachqa-0", "orphan-0", "A-qa"} |->
        CASE id = "A-0" -> [file_id |-> "A", text |-> [tag |-> 1, lo |-> 0, hi |-> 500],
                            doc_type |-> RESUME_CHUNK]
          [] id = "B-0" -> [file_id |-> "B", text |-> [tag |-> 1, lo |-> 0, hi |-> 500],
                            doc_type |-> RESUME_CHUNK]
          [] id = "B-1" -> [file_id |-> "B", text |-> [tag |-> 1, lo |-> 450, hi |-> 480],
                            doc_type |-> RESUME_CHUNK]
          [] id = "coachqa-0" -> [file_id |-> Absent, text |-> [tag |-> 0, lo |-> 0, hi |-> 0],
                                  doc_type |-> COACH_QA]
          [] id = "orphan-0" -> [file_id |-> Absent, text |-> [tag |-> 2, lo |-> 0, hi |-> 300],
                                 doc_type |-> RESUME_CHUNK]
          [] OTHER -> [file_id |-> "A", text |-> [tag |-> 0, lo |-> 1, hi |-> 1],
                       doc_type |-> COACH_QA]]

MaxTopK == 2

RetrieveArgs ==
    [query : {1, 2},
     top_k : 1..MaxTopK,
     doc_types : {<<>>, <<RESUME_CHUNK>>, <<COACH_QA>>,
                  <<RESUME_CHUNK, COACH_QA>>, <<COACH_QA, RESUME_CHUNK>>},
     file_id : {None, "", "A", "B", "C"},
     allow_fallback : BOOLEAN]

NoOutcome == RetrieveOutcome(FALSE, <<>>, <<>>, EmptyTable)

\* retrieve_texts is called with any arguments on any index over the pool.
RetrieveInit ==
    /\ ServiceAtRest
    /\ \E ids \in SUBSET DOMAIN RecordPool : index = [id \in ids |-> RecordPool[id]]
    /\ \E args \in RetrieveArgs :
          frame = [fn |-> "retrieve_texts", args |-> args, pc |-> "call", out |-> NoOutcome]

Retrieve ==
    /\ frame.fn = "retrieve_texts"
    /\ frame.pc = "call"
    /\ \E out \in retrieve_texts(index, frame.args.query, frame.args.top_k,
                                 frame.args.doc_types, frame.args.file_id,
                                 frame.args.allow_fallback) :
          frame' = [frame EXCEPT !.pc = "done", !.out = out]
    /\ UNCHANGED <<index, sessions, resumes, cache, nextId, pc, req, resp, completed>>

RetrieveNext == Retrieve

SpecRetrieve == RetrieveInit /\ [][RetrieveNext]_vars

\* The keys the model's JSON object may hold.
KeyPool == {"gaps", "quick_wins", "quickWins", "overall_score", "score_label"}

ModelObjects ==
    UNION {[ks -> FieldValues] : ks \in SUBSET KeyPool}

ModelBodies ==
    {Body("blank", EmptyDict, <<>>), Body("text", EmptyDict, <<>>),
     Body("open", EmptyDict, <<>>)}
    \cup {Body("scalar", EmptyDict, <<v>>) : v \in {JNull, "0", "\"text\"", "true"}}
    \cup {Body("list", EmptyDict, items) : items \in SeqsUpTo({"1", "{}"}, 2)}
    \cup {Body("dict", f, <<>>) : f \in ModelObjects}

ModelOutputs ==
    {[wrap |-> "none", body |-> Body("blank", EmptyDict, <<>>)]}
    \cup {[wrap |-> w, body |-> b] : w \in {"bare", "prose"}, b \in ModelBodies}

\* analyze_resume has called the model, which answered out.
AnalyzeInit ==
    /\ ServiceAtRest
    /\ index = EmptyTable
    /\ \E out \in ModelOutputs :
          frame = [fn |-> "analyze_resume", out |-> out, pc |-> "parse",
                   parsed |-> [raised |-> FALSE, result |-> EmptyDict]]

Analyze ==
    /\ frame.fn = "analyze_resume"
    /\ frame.pc = "parse"
    /\ frame' = [frame EXCEPT !.pc = "done", !.parsed = parse_analysis(frame.out)]
    /\ UNCHANGED <<index, sessions, resumes, cache, nextId, pc, req, resp, completed>>

AnalyzeNext == Analyze

SpecAnalyze == AnalyzeInit /\ [][AnalyzeNext]_vars

(***************************************************************************)
(* Properties                                                              *)
(***************************************************************************)

\* The upload requests in sight: those being handled and the one just answered.
UploadsInSight ==
    {r \in {req[w] : w \in Workers} \cup {resp.of} : r.kind = "upload"}

ChatAnswered == resp.of.kind = "chat"
UploadAnswered == resp.of.kind = "upload"

\* C1 -- Retrieval isolation: every record whose text the chat handler's
\* resume retrieval (doc_types = [resume_chunk], file_id = A, no fallback)
\* returns is a record of the index whose metadata file_id is A, whatever
\* other uploads have put in the index.
C1_RetrievalIsolation ==
    ChatAnswered =>
        \A i \in 1..Len(resp.of.resume_hits) :
            LET id == resp.of.resume_hits[i]
            IN  /\ id \in DOMAIN index
                /\ index[id].file_id = resp.of.file_id
                /\ index[id].doc_type = RESUME_CHUNK
                /\ resp.of.resume_chunks[i] = index[id].text

\* A chat found the chunks of its resume while the index holds the chunks of
\* another upload.
C1_Witness ==
    /\ ChatAnswered
    /\ resp.of.resume_hits # <<>>
    /\ \E id \in DOMAIN index :
          /\ index[id].doc_type = RESUME_CHUNK
          /\ index[id].file_id # resp.of.file_id

\* C2 -- Content-addressed analysis: uploads of the same extracted text have
\* the same resume_hash, and an upload that starts after an upload of the
\* same text has returned its analysis makes no generative analysis call.
C2_ContentAddressed ==
    /\ \A a, b \in UploadsInSight :
          a.text = b.text => a.resume_hash = b.resume_hash
    /\ \A r \in UploadsInSight : r.prior => r.calls.analysis = 0

\* An upload is answered from the table resumes by a worker whose own
\* _ANALYSIS_CACHE does not hold the text.
C2_Witness ==
    /\ UploadAnswered
    /\ resp.status = 200
    /\ resp.of.prior
    /\ resp.body.analysis \in AnalysisResults
    /\ \E w \in Workers : PyHash(resp.of.text) \notin DOMAIN cache[w]

\* C3 -- No upload or chat request ends in an unhandled fault, whichever
\* sub-step fails, and every upload is answered 200 with its fresh file_id.
C3_NoUnhandledFault ==
    /\ resp.status # 500
    /\ UploadAnswered => resp.status = 200 /\ resp.body.file_id = FileId(nextId)

\* C4 -- A chat whose file_id no upload produced, or whose upload stored no
\* resume chunk, is answered with the fixed instructional message, and no
\* generative call is made for it.
C4_UnknownFileIdFixedMessage ==
    (/\ ChatAnswered
     /\ resp.of.file_id # Missing
     /\ (~resp.of.issued \/ ~resp.of.had_chunks))
    => /\ resp.status = 200
       /\ resp.body.response \in {PLEASE_UPLOAD, NO_RESUME_CONTENT}
       /\ resp.of.calls.reply = 0

\* C5 -- A chat request without file_id, or with a file_id no resume content
\* matches, gets a fixed instructional message in a normal ChatResponse, not
\* an error status.
C5_InstructionalMessageNotError ==
    (/\ ChatAnswered
     /\ (resp.of.file_id = Missing \/ ~resp.of.had_chunks))
    => /\ resp.status = 200
       /\ resp.body.response \in {PLEASE_UPLOAD, NO_RESUME_CONTENT}

\* The upload r was not classified as a resume: not a PDF, unreadable or
\* empty text, or the classifier did not return true.
NotClassifiedAsResume(r) ==
    /\ r.kind = "upload"
    /\ (~r.is_pdf \/ r.text = EmptyText \/ r.classified # "yes")

\* C6 -- An upload that is not classified as a resume is answered with the
\* fixed 'could not detect ... a proper resume' analysis, and no step taken
\* for it changes the vector index, the table sessions or the table resumes,
\* or makes an analysis call.
C6_NonResumeFrame ==
    [][ \A w \in Workers :
          (\/ req'[w] # req[w] /\ NotClassifiedAsResume(req[w])
           \/ req'[w] # req[w] /\ NotClassifiedAsResume(req'[w])
           \/ resp' # resp /\ NotClassifiedAsResume(resp'.of))
          => /\ index' = index
             /\ sessions' = sessions
             /\ resumes' = resumes
             /\ (NotClassifiedAsResume(resp'.of) =>
                    /\ resp'.status = 200
                    /\ resp'.body.analysis = NOT_RESUME_ANALYSIS
                    /\ resp'.of.calls.analysis = 0)
      ]_vars

\* A file that is not a resume is answered while the index and both tables
\* hold the data of an earlier resume.
C6_Witness ==
    /\ NotClassifiedAsResume(resp.of)
    /\ resp.body.analysis = NOT_RESUME_ANALYSIS
    /\ index # EmptyTable
    /\ sessions # EmptyTable
    /\ resumes # EmptyTable

ClassifierDone == frame.fn = "is_probable_resume" /\ frame.pc = "done"

\* C7 -- Classifier conservatism: is_probable_resume returns true exactly
\* when the length is within [300, 60000] and the upper-cased reply contains
\* "YES" and not "NO" (both, or neither, give false); outside that range it
\* returns false without a model call.
C7_ClassifierConservatism ==
    ClassifierDone =>
        LET r == frame.result
            inRange == frame.n >= 300 /\ frame.n <= 60000
            up == Upper(frame.reply.text)
            hasYes == \E i \in 1..Len(up) - 2 :
                         up[i] = "Y" /\ up[i + 1] = "E" /\ up[i + 2] = "S"
            hasNo == \E i \in 1..Len(up) - 1 : up[i] = "N" /\ up[i + 1] = "O"
        IN  /\ (~r.raised /\ r.ret) <=>
                  (inRange /\ frame.reply.kind = "text" /\ hasYes /\ ~hasNo)
            /\ ~inRange => ~r.raised /\ ~r.ret /\ r.calls = 0
            /\ inRange => r.calls = 1

\* A reply holding both YES and NO, for a text of an accepted length.
C7_Witness ==
    /\ ClassifierDone
    /\ frame.n = 300
    /\ Contains(YES, Upper(frame.reply.text))
    /\ Contains(NO, Upper(frame.reply.text))
    /\ frame.result.calls = 1
    /\ ~frame.result.ret

ChunkDone == frame.fn = "chunk_text" /\ frame.pc = "done"

\* C8 as stated -- for every text of length <= size (overlap < size),
\* chunk_text returns exactly one chunk, the whole text.
C8_OneChunkUpToSize ==
    (ChunkDone /\ Len(frame.text) <= frame.chunk_size)
    => frame.chunks = <<frame.text>>

\* C8 as amended -- for a text of length <= size (overlap < size): the empty
\* text gives no chunk; a non-empty text gives the whole text as first chunk,
\* and that chunk alone exactly when the length is <= size - overlap.
C8_OneChunkUpToStep ==
    (ChunkDone /\ Len(frame.text) <= frame.chunk_size)
    => IF frame.text = <<>>
       THEN frame.chunks = <<>>
       ELSE /\ Len(frame.chunks) >= 1
            /\ frame.chunks[1] = frame.text
            /\ (Len(frame.chunks) = 1
                  <=> Len(frame.text) <= frame.chunk_size - frame.overlap)

\* A text no longer than the chunk size that is cut into two chunks.
C8_Witness ==
    /\ ChunkDone
    /\ Len(frame.text) <= frame.chunk_size
    /\ Len(frame.chunks) = 2

\* The characters of text at the 0-based positions lo .. hi - 1 that exist.
Window(text, lo, hi) ==
    [j \in 1..(Min(hi, Len(text)) - lo) |-> text[lo + j]]

\* s without its first k characters
DropFirst(s, k) == [j \in 1..(Len(s) - k) |-> s[k + j]]

\* The first chunk followed by every later chunk without its first overlap
\* characters.
RECURSIVE Rejoin(_, _)
Rejoin(chunks, overlap) ==
    IF Len(chunks) <= 1
    THEN (IF chunks = <<>> THEN <<>> ELSE chunks[1])
    ELSE Rejoin(SubSeq(chunks, 1, Len(chunks) - 1), overlap)
         \o DropFirst(chunks[Len(chunks)], overlap)

\* C9 -- Chunk reconstruction: for 0 <= overlap < size, chunk i (from 0) is
\* the window [i*(size-overlap), i*(size-overlap)+size) of the text, and the
\* first chunk followed by the later chunks without their first overlap
\* characters is the text.
C9_ChunkReconstruction ==
    ChunkDone =>
        /\ \A i \in 1..Len(frame.chunks) :
              frame.chunks[i] =
                 Window(frame.text,
                        (i - 1) * (frame.chunk_size - frame.overlap),
                        (i - 1) * (frame.chunk_size - frame.overlap) + frame.chunk_size)
        /\ Rejoin(frame.chunks, frame.overlap) = frame.text
        /\ frame.chunks = chunk_text(frame.text, frame.chunk_size, frame.overlap)

\* A text cut into at least three overlapping chunks, the last one shorter
\* than the chunk size.
C9_Witness ==
    /\ ChunkDone
    /\ frame.overlap >= 1
    /\ Len(frame.chunks) >= 3
    /\ Len(frame.chunks[Len(frame.chunks)]) < frame.chunk_size

RetrieveDone == frame.fn = "retrieve_texts" /\ frame.pc = "done"

\* The first query of the finished call returned, and matched nothing.
FirstQueryEmpty ==
    /\ Len(frame.out.queries) >= 1
    /\ ~(frame.out.raised /\ Len(frame.out.queries) = 1)
    /\ ~\E id \in DOMAIN index :
          MatchesFilter(index[id], frame.out.queries[1])

\* The first query of the finished call returned matches.
FirstQueryMatched ==
    /\ Len(frame.out.queries) >= 1
    /\ \E id \in DOMAIN index : MatchesFilter(index[id], frame.out.queries[1])

\* The second query of the finished call has the filter doc_type = t and
\* nothing else, and the texts returned are those of its top_k matches.
FallbackQueryOn(t) ==
    /\ Len(frame.out.queries) = 2
    /\ frame.out.queries[2].doc_type.op = "eq"
    /\ frame.out.queries[2].doc_type.val = t
    /\ frame.out.queries[2].file_id.op = "none"
    /\ ~frame.out.raised =>
          LET ofType == {id \in DOMAIN index : index[id].doc_type = t}
              hits == {frame.out.hits[i] : i \in 1..Len(frame.out.hits)}
          IN  /\ hits \subseteq ofType
              /\ Cardinality(hits) = Len(frame.out.hits)
              /\ Len(frame.out.hits) = Min(frame.args.top_k, Cardinality(ofType))
              /\ frame.out.texts =
                    [i \in 1..Len(frame.out.hits) |-> index[frame.out.hits[i]].text]

\* C10 as stated -- with allow_fallback and a file_id, when the scoped query
\* matches nothing, exactly one further query is issued, filtered on the
\* doc_type alone, and its matches' texts are returned; when the first query
\* has matches, or allow_fallback is false, there is no second query.
C10_FallbackWithFileId ==
    RetrieveDone =>
        /\ (frame.args.allow_fallback /\ Truthy(frame.args.file_id) /\ FirstQueryEmpty)
              => /\ Len(frame.out.queries) = 2
                 /\ frame.out.queries[2].doc_type.op # "none"
                 /\ frame.out.queries[2].file_id.op = "none"
        /\ (FirstQueryMatched \/ ~frame.args.allow_fallback)
              => Len(frame.out.queries) <= 1

\* C10 as amended -- with allow_fallback, a file_id and a non-empty doc_types,
\* when the scoped query matches nothing, exactly one further query is
\* issued, filtered on doc_type = doc_types[0] alone, and its matches' texts
\* are returned; when the first query has matches, allow_fallback is false,
\* or doc_types is empty, there is no second query.
C10_FallbackWithDocType ==
    RetrieveDone =>
        /\ (/\ frame.args.allow_fallback
            /\ Truthy(frame.args.file_id)
            /\ frame.args.doc_types # <<>>
            /\ FirstQueryEmpty)
              => FallbackQueryOn(frame.args.doc_types[1])
        /\ (\/ FirstQueryMatched
            \/ ~frame.args.allow_fallback
            \/ frame.args.doc_types = <<>>)
              => Len(frame.out.queries) <= 1

\* The fallback query returned the chunks of other resumes.
C10_Witness ==
    /\ RetrieveDone
    /\ frame.args.allow_fallback
    /\ frame.args.file_id = "C"
    /\ Len(frame.out.queries) = 2
    /\ Len(frame.out.hits) = 2
    /\ \E i \in 1..2 : index[frame.out.hits[i]].file_id = "B"

AnalyzeDone == frame.fn = "analyze_resume" /\ frame.pc = "done"

\* C11 -- Default-filling: for every model output (empty, not JSON, JSON that
\* is not an object, an object missing fields or holding null for them),
\* analyze_resume returns without raising a result with all ten keys, whose
\* list fields are never null.
C11_DefaultFilling ==
    AnalyzeDone =>
        /\ ~frame.parsed.raised
        /\ DOMAIN frame.parsed.result = ResultKeys
        /\ \A fd \in ResultFields :
              fd.list => frame.parsed.result[fd.snake] # JNull

\* The coach_qa records of an index.
CoachRecords(idx) == {id \in DOMAIN idx : idx[id].doc_type = COACH_QA}

\* idx holds the corpus: exactly the records coachqa-0 .. coachqa-(n-1).
HoldsCorpus(idx) ==
    /\ CoachRecords(idx) = DOMAIN CoachItems
    /\ \A id \in DOMAIN CoachItems : idx[id] = CoachItems[id]

\* C12 -- Seeder idempotence: a run of seed_coach_qa_if_needed that finds a
\* coach_qa record changes nothing; every run that upserts, the first or a
\* later one, overlapping another worker's or not, leaves exactly the n
\* records coachqa-0 .. coachqa-(n-1); the index never holds other coach_qa
\* records.
C12_SeederIdempotence ==
    [][ /\ \A w \in Workers :
             /\ (pc[w] = "boot" /\ pc'[w] # "boot" /\ CoachRecords(index) # {})
                   => (index' = index /\ pc'[w] = "idle")
             /\ (pc[w] = "seed" /\ pc'[w] # "seed") => HoldsCorpus(index')
        /\ (CoachRecords(index') = {} \/ HoldsCorpus(index'))
        /\ (HoldsCorpus(index) => HoldsCorpus(index'))
      ]_vars

\* One worker has seeded the index while the other, which found it empty, is
\* about to upsert the corpus again.
C12_Witness ==
    /\ pc["w1"] = "idle"
    /\ pc["w2"] = "seed"
    /\ HoldsCorpus(index)
    /\ \E id \in DOMAIN index : index[id].doc_type = RESUME_CHUNK

ChunkRunning == frame.fn = "chunk_text" /\ frame.pc = "loop"

\* C13 -- Chunker termination: with overlap < size chunk_text returns, after
\* at most len(text) turns of its loop; for a non-empty text with
\* overlap >= size it never returns: start never rises above 0, so the
\* loop's condition start < len(text) stays true.
C13_ChunkerTermination ==
    /\ (frame.overlap < frame.chunk_size) ~> ChunkDone
    /\ [](frame.overlap < frame.chunk_size => Len(frame.chunks) <= Len(frame.text))
    /\ []((frame.text # <<>> /\ frame.overlap >= frame.chunk_size)
            => /\ ChunkRunning
               /\ frame.start <= 0
               /\ frame.start < Len(frame.text))

\* A one-character text whose loop has made more turns than any text of the
\* model has characters, with an overlap above the chunk size.
C13_Witness ==
    /\ ChunkRunning
    /\ Len(frame.text) = 1
    /\ frame.overlap > frame.chunk_size
    /\ Len(frame.chunks) > MaxTextLen
    /\ frame.start < 0

\* C14 -- Under any interleaving of concurrent uploads of the same text, the
\* table resumes holds one record for the resume_hash, the analysis in that
\* record never changes once it is stored, and every upload of the text
\* returns the analysis the record holds.
C14_AnalysisStable ==
    [][ /\ \A h \in DOMAIN resumes :
             h \in DOMAIN resumes' /\ resumes'[h] = resumes[h]
        /\ (/\ resp' # resp
            /\ resp'.of.kind = "upload"
            /\ resp'.status = 200
            /\ resp'.of.is_valid_resume)
           => /\ resp'.of.resume_hash \in DOMAIN resumes'
              /\ get_resume_analysis(resumes', resp'.of.resume_hash) = resp'.body.analysis
      ]_vars

\* The ids upload_resume has handed out.
IssuedFileIds == {FileId(n) : n \in 1..nextId}

\* The record id is f"{file_id}-{i}" of its own metadata, for an issued id.
IsUploadRecord(idx, id) ==
    /\ idx[id].doc_type = RESUME_CHUNK
    /\ idx[id].file_id \in IssuedFileIds
    /\ \E i \in 0..Cardinality(DOMAIN idx) : id = RecordId(idx[id].file_id, i)

\* C15 -- Every record upload_resume writes has doc_type resume_chunk, the
\* file_id the upload returns and the id <file_id>-<i>; no step of an upload
\* overwrites a record another upload or the seeder wrote, and the records
\* carrying a file_id are those of the one upload that was given it.
C15_UploadRecords ==
    [][ /\ \A id \in DOMAIN index :
             id \in DOMAIN index' /\ index'[id] = index[id]
        /\ \A id \in DOMAIN index' \ DOMAIN index :
             \/ id \in DOMAIN CoachItems /\ index'[id] = CoachItems[id]
             \/ /\ IsUploadRecord(index', id)
                /\ \E w \in Workers :
                      /\ pc[w] = "upsert"
                      /\ req[w].file_id = index'[id].file_id
                      /\ id \in DOMAIN UploadItems(req[w].file_id, req[w].chunks)
                      /\ index'[id] = UploadItems(req[w].file_id, req[w].chunks)[id]
        /\ (resp' # resp /\ resp'.of.kind = "upload" /\ resp'.status = 200)
           => LET mine == {id \in DOMAIN index' : index'[id].file_id = resp'.body.file_id}
              IN  \/ mine = {}
                  \/ /\ mine = DOMAIN UploadItems(resp'.of.file_id, resp'.of.chunks)
                     /\ \A id \in mine :
                           index'[id] = UploadItems(resp'.of.file_id, resp'.of.chunks)[id]
      ]_vars

\* The index holds the chunks of two uploads of the same text and the coach
\* corpus, and the second upload has been answered.
C15_Witness ==
    /\ UploadAnswered
    /\ resp.status = 200
    /\ resp.body.file_id = FileId(2)
    /\ HoldsCorpus(index)
    /\ \E a, b \in DOMAIN index :
          /\ index[a].file_id = FileId(1)
          /\ index[b].file_id = FileId(2)
          /\ index[a].text = index[b].text

====
